---- MODULE Spec2Model ----
(***************************************************************************)
(* A model of the Markdown renderer's app.js: the debounce utility, the    *)
(* render pipeline (updatePreview), the asynchronous Mermaid batch         *)
(* (renderMermaidDiagrams), and theme application.                          *)
(*                                                                         *)
(* Three systems are specified over one set of variables:                    *)
(*   SpecDebounce  debounce(fn, delay) alone, with a millisecond clock and  *)
(*                 a recording fn;                                          *)
(*   Spec          the page: editor, debounced updatePreview, preview DOM,  *)
(*                 Mermaid batches and in-flight mermaid.run calls, theme.  *)
(*   FairSpec      the diagram pipeline of the page, with weak fairness of  *)
(*                 the settling of every in-flight mermaid.run call.        *)
(***************************************************************************)
EXTENDS Integers, Sequences, FiniteSets, TLC

(***************************************************************************)
(* Bounds of the model.                                                    *)
(***************************************************************************)
\* largest delay handed to debounce() in SpecDebounce
MaxDelay == 3
\* largest number of wrapper calls in one burst in SpecDebounce
MaxCalls == 3
\* size of the host's timer table (only a faulty debounce fills it)
MaxTimers == 2
\* DOM nodes created over a run of the page
MaxNodes == 3
\* largest value mermaidCounter takes over a run of the page
MaxCounter == 3
\* longest text handed to escapeHtml and renderer.code
MaxText == 2

MaxSize == 5

(***************************************************************************)
(* Program constants.                                                      *)
(***************************************************************************)
\* debounce(updatePreview, 50)
Delay == 50
\* let timer = null
NoTimer == 0

(***************************************************************************)
(* Texts. A text is a sequence of characters; the characters stand for     *)
(* whitespace and for the fenced blocks a Markdown source can hold:        *)
(*   " "  whitespace                                                        *)
(*   "c"  a fenced code block with a non-mermaid language tag               *)
(*   "d"  a fenced mermaid block with valid diagram syntax                  *)
(*   "x"  a fenced mermaid block with invalid diagram syntax                *)
(***************************************************************************)
Space == " "

Texts == { <<>>, <<Space>>, <<"c">>, <<"d">>, <<"x", "d">> }

\* the editor contents FairSpec renders: blank, one diagram, a failing diagram
\* followed by a good one, and a good one followed by a failing one
DiagramTexts == { <<Space>>, <<"d">>, <<"x", "d">>, <<"d", "x">> }

\* the arguments a caller passes to a debounced wrapper in SpecDebounce
Args == {"a", "b"}

VARIABLES
  \* ---- debounce closure and host timer table
  delay,          \* the delay this debounce instance was created with
  timer,          \* the closure variable `timer`: a handle or NoTimer
  timers,         \* host timer table: set of [id, remaining, args]
  \* ---- observation of the recording fn of SpecDebounce
  sinceCall,      \* ms since the last wrapper call, capped at delay + 1; -1 before any
  burst,          \* arguments of the calls of the current burst, in order
  execs,          \* executions of fn since the burst began: Seq([args, since])
  \* ---- the page
  loaded,         \* DOMContentLoaded has been handled
  editor,         \* editor.value
  preview,        \* [placeholder: BOOLEAN, els: Seq(node)]: preview.innerHTML
  nodes,          \* DOM elements ever created: node id -> record
  mermaidCounter, \* var mermaidCounter
  batches,        \* suspended renderMermaidDiagrams invocations: id -> record
  nextBatch,      \* id of the next invocation
  calls,          \* mermaid.run calls in flight: set of [b, n]
  dataTheme,      \* document.documentElement data-theme
  storage,        \* localStorage 'theme'
  mermaidTheme,   \* theme mermaid was last initialized with
  \* ---- observation of the page
  idLog,          \* every identifier assigned at line 56, in order
  lastUpdate,     \* what the last run of updatePreview did
  lastDone,       \* elements of the batch that completed last
  window,         \* [open, runs, edits]: the current debounce window of the editor
  \* ---- sharing and export
  replaced,       \* the fragment history.replaceState installed since the page opened
  toast,          \* the message showToast displayed last
  opened,         \* observation: the fragment the page was opened with
  shared,         \* observation: what the last click on Share found and did
  load,           \* observation: what loadFromHash did when the page opened
  \* ---- calls of the pure functions escapeHtml and renderer.code
  input,          \* the arguments of the call
  result,         \* what the call returned
  \* ---- the theme: the system signal, and the diagram service's use of its theme
  prefers,        \* matchMedia('(prefers-color-scheme: dark)').matches
  configured,     \* batch id -> theme of the service when the awaited call was made
  generated,      \* node id -> theme its graphic was generated under, or "none"
  \* ---- the resizable divider
  isDragging,     \* var isDragging
  viewport,       \* [innerWidth, innerHeight, offsetWidth, offsetHeight of the divider]
  flexBasis,      \* style.flexBasis of the two panels, in percent, or Unset
  pointer         \* observation: the position of the last drag move that acted

pageVars == <<loaded, editor, preview, nodes, mermaidCounter, batches, nextBatch,
              calls, dataTheme, storage, mermaidTheme, idLog, lastUpdate,
              lastDone, window>>
vars == <<delay, timer, timers, sinceCall, burst, execs,
          loaded, editor, preview, nodes, mermaidCounter, batches, nextBatch,
          calls, dataTheme, storage, mermaidTheme, idLog, lastUpdate,
          lastDone, window, replaced, toast, opened, shared, load, input, result,
          prefers, configured, generated,
          isDragging, viewport, flexBasis, pointer>>

shareVars == <<replaced, toast, opened, shared, load>>

pureVars == <<input, result>>

themeVars == <<prefers, configured, generated>>

dividerVars == <<isDragging, viewport, flexBasis, pointer>>

(***************************************************************************)
(* Host timers: setTimeout / clearTimeout.                                 *)
(***************************************************************************)
TimerIds == 1..MaxTimers

FreeTimerIds(tbl) == { i \in TimerIds : \A t \in tbl : t.id # i }

\* the handle setTimeout returns
NewTimerId(tbl) == CHOOSE i \in FreeTimerIds(tbl) : \A j \in FreeTimerIds(tbl) : i <= j

SetTimeout(tbl, args, dl) ==
  tbl \cup { [id |-> NewTimerId(tbl), remaining |-> dl, args |-> args] }

ClearTimeout(tbl, h) == { t \in tbl : t.id # h }

\* a timer whose delay has elapsed; the host runs it before any later event
Due(tbl) == { t \in tbl : t.remaining = 0 }

\* the table after d ms have passed (d no more than any remaining delay)
Elapse(tbl, d) == { [t EXCEPT !.remaining = @ - d] : t \in tbl }

\* the time until the earliest timer of a non-empty table is due
ToDeadline(tbl) == CHOOSE d \in { t.remaining : t \in tbl } : \A t \in tbl : d <= t.remaining

(***************************************************************************)
(* debounce: the returned wrapper, lines 12-20. The result is the pair     *)
(* <<timer, timers>> after the call.                                       *)
(***************************************************************************)
\* a debounce that forgets clearTimeout
DebouncedNoClear(tm, tbl, args, dl) ==
  <<NewTimerId(tbl), SetTimeout(tbl, args, dl)>>

\* a debounce that ignores calls while a timer is pending (leading-edge arguments)
DebouncedKeepFirst(tm, tbl, args, dl) ==
  IF tm # NoTimer /\ \E t \in tbl : t.id = tm
  THEN <<tm, tbl>>
  ELSE <<NewTimerId(tbl), SetTimeout(tbl, args, dl)>>

\* a guard that never reaches clearTimeout
ClearedNever(tm, tbl) == tbl

\* the table after `if (timer !== null) clearTimeout(timer)`
Cleared(tm, tbl) == IF tm # NoTimer THEN ClearTimeout(tbl, tm) ELSE tbl

Debounced(tm, tbl, args, dl) ==
  <<NewTimerId(Cleared(tm, tbl)), SetTimeout(Cleared(tm, tbl), args, dl)>>

\* the value of `timer` after the timer callback `fn.apply(this, args); timer = null`:
\* when fn throws, the assignment is not reached
TimerAfterCallback(tm, throws) == IF throws THEN tm ELSE NoTimer

(***************************************************************************)
(* The page before DOMContentLoaded.                                       *)
(***************************************************************************)
EmptyView == [placeholder |-> FALSE, els |-> <<>>]

NoUpdate == [ran |-> FALSE, text |-> <<>>, converted |-> FALSE, diagrams |-> FALSE]

\* no fragment: location.hash is empty
NoHash == [marker |-> "", token |-> [lz |-> FALSE, text |-> <<>>, raises |-> FALSE]]

NoShare == [clicked |-> FALSE, text |-> <<>>, emitted |-> FALSE]

NoLoad ==
  [ran |-> FALSE, decoded |-> <<>>, renders |-> 0, threw |-> FALSE,
   editor |-> <<>>, restored |-> <<>>, same |-> TRUE, placeholder |-> FALSE,
   update |-> NoUpdate, of |-> NoShare]

NoInput == [code |-> <<>>, lang |-> [given |-> FALSE, s |-> <<>>], hl |-> "ok"]

NoResult == [op |-> "none", threw |-> FALSE, html |-> <<>>]

\* `if (window.innerWidth < 768)`, line 320
Breakpoint == 768

\* the panels as the style sheet sizes them: no flexBasis set by the script
Unset == [editor |-> -1, preview |-> -1, of |-> 0]

NoPointer == -2

\* a desktop window with a thin divider
Desktop ==
  [innerWidth |-> Breakpoint, innerHeight |-> Breakpoint,
   offsetWidth |-> 1, offsetHeight |-> 1]

PageInit ==
  /\ loaded = FALSE
  /\ editor = <<>>
  /\ preview = EmptyView
  /\ nodes = <<>>
  /\ mermaidCounter = 0
  /\ batches = <<>>
  /\ nextBatch = 1
  /\ calls = {}
  /\ dataTheme = "unset"
  /\ storage \in {"absent", "light", "dark"}
  /\ mermaidTheme = "default"
  /\ idLog = <<>>
  /\ lastUpdate = NoUpdate
  /\ lastDone = <<>>
  /\ window = [open |-> FALSE, runs |-> 0, edits |-> FALSE]
  /\ replaced = NoHash
  /\ toast = ""
  /\ shared = NoShare
  /\ load = NoLoad
  /\ configured = <<>>
  /\ generated = <<>>
  /\ isDragging = FALSE
  /\ flexBasis = Unset
  /\ pointer = NoPointer

(***************************************************************************)
(* SpecDebounce: one debounced wrapper around a recording fn, a clock in   *)
(* milliseconds. The host runs a timer's callback when its delay has       *)
(* elapsed, before it handles any later event.                             *)
(***************************************************************************)
InitDebounce ==
  /\ delay \in 1..MaxDelay
  /\ timer = NoTimer
  /\ timers = {}
  /\ sinceCall = -1
  /\ burst = <<>>
  /\ execs = <<>>
  /\ PageInit
  /\ prefers = FALSE
  /\ viewport = Desktop
  /\ storage = "absent"
  /\ opened = NoHash
  /\ input = NoInput
  /\ result = NoResult

\* a call of the wrapper with arguments a
Call(a) ==
  LET newBurst == burst = <<>> \/ sinceCall >= delay
      r == Debounced(timer, timers, a, delay)
  IN /\ Due(timers) = {}
     /\ Cardinality(timers) < MaxTimers
     /\ newBurst \/ Len(burst) < MaxCalls
     /\ timer' = r[1]
     /\ timers' = r[2]
     /\ sinceCall' = 0
     /\ burst' = IF newBurst THEN <<a>> ELSE Append(burst, a)
     /\ execs' = IF newBurst THEN <<>> ELSE execs
     /\ UNCHANGED <<delay>>
     /\ UNCHANGED pageVars
     /\ UNCHANGED shareVars
     /\ UNCHANGED pureVars
     /\ UNCHANGED themeVars
     /\ UNCHANGED dividerVars

\* one millisecond passes
Tick ==
  /\ Due(timers) = {}
  /\ sinceCall >= 0
  /\ sinceCall <= delay
  /\ sinceCall' = sinceCall + 1
  /\ timers' = Elapse(timers, 1)
  /\ UNCHANGED <<delay, timer, burst, execs>>
  /\ UNCHANGED pageVars
  /\ UNCHANGED shareVars
  /\ UNCHANGED pureVars
  /\ UNCHANGED themeVars
  /\ UNCHANGED dividerVars

\* the timer callback of lines 16-19 with the recording fn
TimerFires ==
  \E t \in Due(timers), throws \in BOOLEAN :
    /\ timers' = timers \ {t}
    /\ execs' = Append(execs, [args |-> t.args, since |-> sinceCall])
    /\ timer' = TimerAfterCallback(timer, throws)
    /\ UNCHANGED <<delay, sinceCall, burst>>
    /\ UNCHANGED pageVars
    /\ UNCHANGED shareVars
    /\ UNCHANGED pureVars
    /\ UNCHANGED themeVars
    /\ UNCHANGED dividerVars

NextDebounce ==
  \/ \E a \in Args : Call(a)
  \/ Tick
  \/ TimerFires

SpecDebounce == InitDebounce /\ [][NextDebounce]_vars

(***************************************************************************)
(* Claims about debounce.                                                  *)
(***************************************************************************)
LastOf(s) == s[Len(s)]

\* C1: for a burst of N >= 1 wrapper calls, each less than `delay` ms after the
\* previous one, fn runs exactly once, `delay` ms after the last call, with the
\* arguments of the last call; it does not run before that, and never with the
\* arguments of an intermediate call.
C1_ExactlyOnceWithLastArgs ==
  /\ Len(execs) <= 1
  /\ \A k \in 1..Len(execs) :
       /\ execs[k].args = LastOf(burst)
       /\ execs[k].since = delay
  /\ (burst # <<>> /\ sinceCall < delay) => execs = <<>>
  /\ (burst # <<>> /\ sinceCall = delay) => (Len(execs) = 1 \/ Due(timers) # {})
  /\ (burst # <<>> /\ sinceCall > delay) => Len(execs) = 1

\* a burst of MaxCalls calls whose first and last arguments differ has run fn once
C1_Witness ==
  /\ Len(burst) = MaxCalls
  /\ burst[1] # LastOf(burst)
  /\ Len(execs) = 1
  /\ sinceCall > delay

\* C2: a debounced wrapper never has more than one pending timer, however many
\* calls were made, and the pending timer is the one `timer` holds.
C2_AtMostOnePendingTimer ==
  /\ Cardinality(timers) <= 1
  /\ \A t \in timers : t.id = timer

\* after MaxCalls calls in a burst exactly one timer is pending
C2_Witness ==
  /\ Len(burst) = MaxCalls
  /\ Cardinality(timers) = 1
  /\ execs = <<>>

(***************************************************************************)
(* The page. The operators below take and return the part of the page      *)
(* state that updatePreview, renderMermaidDiagrams and applyTheme touch,   *)
(* as a record w, so that one handler can call several of them in turn.    *)
(***************************************************************************)
Cur ==
  [preview |-> preview, nodes |-> nodes, mermaidCounter |-> mermaidCounter,
   batches |-> batches, nextBatch |-> nextBatch, calls |-> calls,
   dataTheme |-> dataTheme, mermaidTheme |-> mermaidTheme,
   idLog |-> idLog, lastUpdate |-> lastUpdate, lastDone |-> lastDone]

Commit(w) ==
  /\ preview' = w.preview
  /\ nodes' = w.nodes
  /\ mermaidCounter' = w.mermaidCounter
  /\ batches' = w.batches
  /\ nextBatch' = w.nextBatch
  /\ calls' = w.calls
  /\ dataTheme' = w.dataTheme
  /\ mermaidTheme' = w.mermaidTheme
  /\ idLog' = w.idLog
  /\ lastUpdate' = w.lastUpdate
  /\ lastDone' = w.lastDone

\* String.prototype.trim on a text
RECURSIVE TrimLeft(_)
TrimLeft(s) == IF s # <<>> /\ Head(s) = Space THEN TrimLeft(Tail(s)) ELSE s

RECURSIVE TrimRight(_)
TrimRight(s) ==
  IF s # <<>> /\ s[Len(s)] = Space THEN TrimRight(SubSeq(s, 1, Len(s) - 1)) ELSE s

Trim(s) == TrimRight(TrimLeft(s))

\* a blank test that forgets trim()
IsEmptyOnly(text) == text = <<>>

\* the test of line 88: !markdownText || markdownText.trim() === ''
IsBlank(text) == text = <<>> \/ Trim(text) = <<>>

\* the fenced blocks of a text, in document order: what marked.parse with the
\* custom code renderer turns into <pre> elements
IsBlock(ch) == ch # Space

renderMarkdown(text) == SelectSeq(text, IsBlock)

\* the element a <pre> of the converted HTML becomes; doc names the conversion
NewNode(ch, doc) ==
  [kind |-> IF ch = "c" THEN "code" ELSE "mermaid",
   valid |-> ch = "d",
   doc |-> doc,
   state |-> IF ch = "c" THEN "static" ELSE "pending",
   mid |-> 0,
   btns |-> 0,
   writer |-> 0,
   themed |-> FALSE]

PlaceholderView == [placeholder |-> TRUE, els |-> <<>>]

\* preview.querySelectorAll('pre.mermaid'): a static list, in document order
IsMermaid(w, n) == w.nodes[n].kind = "mermaid"

MermaidElements(w) ==
  LET Test(n) == IsMermaid(w, n) IN SelectSeq(w.preview.els, Test)

InSeq(x, s) == \E k \in 1..Len(s) : s[k] = x

IndexIn(x, s) == CHOOSE k \in 1..Len(s) : s[k] = x

\* addCopyButtons: one more copy button on every <pre> that is not a diagram
addCopyButtons(w) ==
  [w EXCEPT !.nodes =
     [n \in DOMAIN w.nodes |->
        IF InSeq(n, w.preview.els) /\ ~IsMermaid(w, n)
        THEN [w.nodes[n] EXCEPT !.btns = @ + 1]
        ELSE w.nodes[n]]]

\* an addMermaidCopyButtons without the .copy-btn test of line 146
addMermaidCopyButtonsNoGuard(w) ==
  [w EXCEPT !.nodes =
     [n \in DOMAIN w.nodes |->
        IF /\ InSeq(n, w.preview.els)
           /\ IsMermaid(w, n)
           /\ w.nodes[n].state = "succeeded"
        THEN [w.nodes[n] EXCEPT !.btns = @ + 1]
        ELSE w.nodes[n]]]

\* addMermaidCopyButtons: a button on every diagram of the container that holds
\* an svg and has no .copy-btn yet
addMermaidCopyButtons(w) ==
  [w EXCEPT !.nodes =
     [n \in DOMAIN w.nodes |->
        IF /\ InSeq(n, w.preview.els)
           /\ IsMermaid(w, n)
           /\ w.nodes[n].state = "succeeded"
           /\ w.nodes[n].btns = 0
        THEN [w.nodes[n] EXCEPT !.btns = 1]
        ELSE w.nodes[n]]]

\* identifiers taken from the element's index in the batch
AssignIdsByIndex(counter, k) == [j \in 1..k |-> j]

\* lines 55-57: the identifiers `++mermaidCounter` gives k elements in turn
AssignIds(counter, k) == [j \in 1..k |-> counter + j]

\* a live collection (getElementsByClassName): the i-th diagram of the preview
\* as it is now
BatchElementLive(w, b, i) ==
  IF i <= Len(MermaidElements(w)) THEN MermaidElements(w)[i] ELSE w.batches[b].els[i]

\* mermaidElements[i] of invocation b: the list is the snapshot taken at line 48
BatchElement(w, b, i) == w.batches[b].els[i]

\* all elements handed to mermaid.run at once
FirstSubmissionsAll(els) == 1..Len(els)

\* the loop of line 60 runs to its first await: element 1 is handed to mermaid.run
FirstSubmissions(els) == {1}

Without(f, b) == [x \in DOMAIN f \ {b} |-> f[x]]

\* renderMermaidDiagrams up to its first await
renderMermaidDiagrams(w, origin) ==
  LET els == MermaidElements(w)
      k == Len(els)
      ids == AssignIds(w.mermaidCounter, k)
      b == w.nextBatch
      w1 == [w EXCEPT
               !.nodes = [n \in DOMAIN w.nodes |->
                            IF InSeq(n, els)
                            THEN [w.nodes[n] EXCEPT
                                    !.mid = ids[IndexIn(n, els)],
                                    !.themed = @ \/ origin = "theme"]
                            ELSE w.nodes[n]],
               !.mermaidCounter = ids[k],
               !.idLog = w.idLog \o ids,
               !.nextBatch = b + 1,
               !.batches = w.batches @@
                 (b :> [els |-> els, i |-> 1, origin |-> origin,
                        doc |-> w.nodes[els[1]].doc,
                        sub |-> Cardinality(FirstSubmissions(els))])]
  IN IF k = 0
     THEN w
     ELSE [w1 EXCEPT !.calls =
             w.calls \cup { [b |-> b, n |-> BatchElement(w1, b, j)] :
                            j \in FirstSubmissions(els) }]

\* whether the text can be rendered within the bounds of the model
CanRender(w, text) ==
  \/ IsBlank(text)
  \/ LET blocks == renderMarkdown(text)
         Diagram(ch) == ch # "c"
     IN /\ Len(w.nodes) + Len(blocks) <= MaxNodes
        /\ w.mermaidCounter + Len(SelectSeq(blocks, Diagram)) <= MaxCounter

CanRerender(w) == w.mermaidCounter + Len(MermaidElements(w)) <= MaxCounter

\* an updatePreview that appends the converted HTML to the preview
updatePreviewAppend(w, text) ==
  IF IsBlank(text)
  THEN [w EXCEPT !.preview = PlaceholderView,
                 !.lastUpdate = [ran |-> TRUE, text |-> text,
                                 converted |-> FALSE, diagrams |-> FALSE]]
  ELSE LET blocks == renderMarkdown(text)
           first == Len(w.nodes) + 1
           fresh == [j \in 1..Len(blocks) |-> NewNode(blocks[j], first)]
           w1 == [w EXCEPT
                    !.nodes = w.nodes \o fresh,
                    !.preview = [placeholder |-> FALSE,
                                 els |-> w.preview.els \o
                                         [j \in 1..Len(blocks) |-> first + j - 1]],
                    !.lastUpdate = [ran |-> TRUE, text |-> text,
                                    converted |-> TRUE, diagrams |-> TRUE]]
       IN renderMermaidDiagrams(addCopyButtons(w1), "render")

\* an updatePreview that starts diagram processing before it injects the HTML
updatePreviewDiagramsFirst(w, text) ==
  IF IsBlank(text)
  THEN [w EXCEPT !.preview = PlaceholderView,
                 !.lastUpdate = [ran |-> TRUE, text |-> text,
                                 converted |-> FALSE, diagrams |-> FALSE]]
  ELSE LET blocks == renderMarkdown(text)
           w0 == renderMermaidDiagrams(w, "render")
           first == Len(w0.nodes) + 1
           fresh == [j \in 1..Len(blocks) |-> NewNode(blocks[j], first)]
           w1 == [w0 EXCEPT
                    !.nodes = w0.nodes \o fresh,
                    !.preview = [placeholder |-> FALSE,
                                 els |-> [j \in 1..Len(blocks) |-> first + j - 1]],
                    !.lastUpdate = [ran |-> TRUE, text |-> text,
                                    converted |-> TRUE, diagrams |-> TRUE]]
       IN addCopyButtons(w1)

\* updatePreview, reading `text` from the editor
updatePreview(w, text) ==
  IF IsBlank(text)
  THEN [w EXCEPT !.preview = PlaceholderView,
                 !.lastUpdate = [ran |-> TRUE, text |-> text,
                                 converted |-> FALSE, diagrams |-> FALSE]]
  ELSE LET blocks == renderMarkdown(text)
           first == Len(w.nodes) + 1
           fresh == [j \in 1..Len(blocks) |-> NewNode(blocks[j], first)]
           w1 == [w EXCEPT
                    !.nodes = w.nodes \o fresh,
                    !.preview = [placeholder |-> FALSE,
                                 els |-> [j \in 1..Len(blocks) |-> first + j - 1]],
                    !.lastUpdate = [ran |-> TRUE, text |-> text,
                                    converted |-> TRUE, diagrams |-> TRUE]]
       IN renderMermaidDiagrams(addCopyButtons(w1), "render")

\* applyTheme, lines 451-473
applyTheme(w, theme) ==
  renderMermaidDiagrams(
    [w EXCEPT !.dataTheme = theme,
              !.mermaidTheme = IF theme = "dark" THEN "dark" ELSE "default"],
    "theme")

(***************************************************************************)
(* The diagram-layout service, mermaid.run({ nodes: [el] }), seen from its *)
(* call site at line 63: the promise of a call on a diagram with valid     *)
(* syntax resolves, with the graphic placed in the element; the promise of *)
(* a call on invalid syntax rejects and leaves the element alone.          *)
(***************************************************************************)
Resolves(w, n) == w.nodes[n].valid

\* the element after the service has put the graphic in it
Resolved(w, c) ==
  [w EXCEPT !.nodes[c.n] = [@ EXCEPT !.state = "succeeded", !.btns = 0,
                                     !.writer = w.batches[c.b].doc]]

\* an empty catch block: the error is swallowed and the element keeps its source text
RejectedUncaught(w, c) == w

\* a catch block that looks its element up in the preview as it is now
RejectedLive(w, c) ==
  LET target == BatchElementLive(w, c.b, w.batches[c.b].i)
  IN [w EXCEPT !.nodes[target] = [@ EXCEPT !.state = "failed", !.btns = 0,
                                           !.writer = w.batches[c.b].doc]]

\* lines 64-68: the catch block writes the error message into `el`
Rejected(w, c) ==
  [w EXCEPT !.nodes[c.n] = [@ EXCEPT !.state = "failed", !.btns = 0,
                                     !.writer = w.batches[c.b].doc]]

\* the invocation resumes after the await: the next element is handed to
\* mermaid.run and the invocation suspends again
NextIteration(w, b) ==
  LET rec == w.batches[b]
      w1 == [w EXCEPT !.batches[b].i = rec.i + 1, !.batches[b].sub = rec.sub + 1]
  IN [w1 EXCEPT !.calls = @ \cup { [b |-> b, n |-> BatchElement(w1, b, rec.i + 1)] }]

\* lines 71-72: the loop is over, the copy buttons are added and the invocation ends
Completed(w, b) ==
  addMermaidCopyButtons(
    [w EXCEPT !.batches = Without(w.batches, b), !.lastDone = w.batches[b].els])

\* a rejection that ends the whole invocation (no try/catch inside the loop)
AfterSettleAbort(w, c, ok) ==
  LET w1 == IF ok THEN Resolved(w, c) ELSE RejectedUncaught(w, c)
      w2 == [w1 EXCEPT !.calls = @ \ {c}]
  IN IF ok /\ w.batches[c.b].i < Len(w.batches[c.b].els)
     THEN NextIteration(w2, c.b)
     ELSE Completed(w2, c.b)

\* lines 60-72 from the settling of the awaited call c on
AfterSettle(w, c, ok) ==
  LET w1 == IF ok THEN Resolved(w, c) ELSE Rejected(w, c)
      w2 == [w1 EXCEPT !.calls = @ \ {c}]
  IN IF w.batches[c.b].i < Len(w.batches[c.b].els)
     THEN NextIteration(w2, c.b)
     ELSE Completed(w2, c.b)

(***************************************************************************)
(* The URL fragment and LZString, as far as page load needs them.          *)
(***************************************************************************)
Compress(text) == [lz |-> TRUE, text |-> text, raises |-> FALSE]

BadToken == [lz |-> FALSE, text |-> <<>>, raises |-> FALSE]

\* a token on which decompressFromEncodedURIComponent raises
RaisingToken == [lz |-> FALSE, text |-> <<>>, raises |-> TRUE]

\* decompressFromEncodedURIComponent: the text, or nothing for a foreign token
Decompress(tok) == IF tok.lz THEN tok.text ELSE <<>>

Hashes ==
  { [marker |-> "", token |-> BadToken],
    [marker |-> "lz", token |-> Compress(<<"d">>)],
    [marker |-> "lz", token |-> BadToken],
    [marker |-> "lz", token |-> RaisingToken],
    [marker |-> "md", token |-> Compress(<<"d">>)] }

\* the text loadFromHash puts in the editor; <<>> when it puts none
HashText(h) == IF h.marker = "lz" THEN Decompress(h.token) ELSE <<>>

NotLoaded(w, ed) ==
  [w |-> w, editor |-> ed, renders |-> 0, decoded |-> <<>>, threw |-> FALSE]

\* a loadFromHash without the `if (text)` test of line 491
loadFromHashNoGuard(w, ed, h) ==
  IF h.marker = "" THEN NotLoaded(w, ed)
  ELSE IF h.marker = "lz" /\ ~h.token.raises
  THEN [w |-> updatePreview(w, HashText(h)), editor |-> HashText(h),
        renders |-> 1, decoded |-> HashText(h), threw |-> FALSE]
  ELSE NotLoaded(w, ed)

\* a loadFromHash that sets the editor and leaves the render to the next input
loadFromHashNoRender(w, ed, h) ==
  IF h.marker = "" THEN NotLoaded(w, ed)
  ELSE IF h.marker = "lz" /\ ~h.token.raises /\ HashText(h) # <<>>
  THEN [w |-> w, editor |-> HashText(h), renders |-> 0, decoded |-> HashText(h),
        threw |-> FALSE]
  ELSE NotLoaded(w, ed)

\* loadFromHash, lines 480-499, on the page w with editor text ed and fragment h
loadFromHash(w, ed, h) ==
  IF h.marker = "" THEN NotLoaded(w, ed)
  ELSE IF h.marker = "lz" /\ ~h.token.raises /\ HashText(h) # <<>>
  THEN [w |-> updatePreview(w, HashText(h)), editor |-> HashText(h),
        renders |-> 1, decoded |-> HashText(h), threw |-> FALSE]
  ELSE NotLoaded(w, ed)

\* an initTheme that follows the system signal whatever the store holds
DOMContentLoadedSystemTheme(w, ed, store, prefersDark, h) ==
  LET theme == IF prefersDark THEN "dark" ELSE "light"
      w1 == applyTheme(w, theme)
      w2 == updatePreview(w1, ed)
      r == loadFromHash(w2, ed, h)
  IN [w |-> r.w, editor |-> r.editor, renders |-> r.renders, decoded |-> r.decoded,
      threw |-> r.threw, before |-> w2]

\* the DOMContentLoaded handler, lines 414-420: initTheme, initRenderer (which
\* runs updatePreview once), initSharing, initPdfDownload, loadFromHash
DOMContentLoaded(w, ed, store, prefersDark, h) ==
  LET theme == IF store # "absent" THEN store
               ELSE IF prefersDark THEN "dark" ELSE "light"
      w1 == applyTheme(w, theme)
      w2 == updatePreview(w1, ed)
      r == loadFromHash(w2, ed, h)
  IN [w |-> r.w, editor |-> r.editor, renders |-> r.renders, decoded |-> r.decoded,
      threw |-> r.threw, before |-> w2]

(***************************************************************************)
(* Spec: the page.                                                         *)
(***************************************************************************)
Init ==
  /\ delay = Delay
  /\ timer = NoTimer
  /\ timers = {}
  /\ sinceCall = -1
  /\ burst = <<>>
  /\ execs = <<>>
  /\ PageInit
  /\ prefers = FALSE
  /\ viewport = Desktop
  /\ opened = NoHash
  /\ input = NoInput
  /\ result = NoResult

observers == <<sinceCall, burst, execs>>

\* DOMContentLoaded: initTheme, initRenderer, initSharing, initPdfDownload,
\* loadFromHash
Loading(prefersDark, h) ==
  LET r == DOMContentLoaded(Cur, editor, storage, prefersDark, h)
  IN /\ ~loaded
     /\ loaded' = TRUE
     /\ editor' = r.editor
     /\ Commit(r.w)
     /\ UNCHANGED <<delay, timer, timers, storage, window>>
     /\ UNCHANGED observers
     /\ UNCHANGED shareVars
     /\ UNCHANGED pureVars
     /\ UNCHANGED dividerVars

PageLoad ==
  \E prefersDark \in BOOLEAN, h \in Hashes :
    Loading(prefersDark, h) /\ UNCHANGED themeVars

\* an input event on the editor: the user's edit, then debouncedUpdate
Input(text) ==
  LET r == Debounced(timer, timers, text, delay)
  IN /\ loaded
     /\ Due(timers) = {}
     /\ Cardinality(timers) < MaxTimers
     /\ editor' = text
     /\ timer' = r[1]
     /\ timers' = r[2]
     /\ window' = IF timers = {}
                  THEN [open |-> TRUE, runs |-> 0, edits |-> FALSE]
                  ELSE [window EXCEPT !.edits = @ \/ text # editor]
     /\ UNCHANGED <<delay, loaded, preview, nodes, mermaidCounter, batches,
                    nextBatch, calls, dataTheme, storage, mermaidTheme, idLog,
                    lastUpdate, lastDone>>
     /\ UNCHANGED observers
     /\ UNCHANGED shareVars
     /\ UNCHANGED pureVars
     /\ UNCHANGED themeVars
     /\ UNCHANGED dividerVars

\* the delay of the pending timer elapses with no further input
Quiesce ==
  /\ loaded
  /\ timers # {}
  /\ Due(timers) = {}
  /\ timers' = Elapse(timers, ToDeadline(timers))
  /\ UNCHANGED <<delay, timer>>
  /\ UNCHANGED pageVars
  /\ UNCHANGED observers
  /\ UNCHANGED shareVars
  /\ UNCHANGED pureVars
  /\ UNCHANGED themeVars
  /\ UNCHANGED dividerVars

\* the timer callback of lines 16-19 with fn = updatePreview
DebounceFire ==
  \E t \in Due(timers) :
    /\ loaded
    /\ CanRender(Cur, editor)
    /\ timers' = timers \ {t}
    /\ Commit(updatePreview(Cur, editor))
    /\ timer' = TimerAfterCallback(timer, FALSE)
    /\ window' = [window EXCEPT !.runs = @ + 1]
    /\ UNCHANGED <<delay, loaded, editor, storage>>
    /\ UNCHANGED observers
    /\ UNCHANGED shareVars
    /\ UNCHANGED pureVars
    /\ UNCHANGED themeVars
    /\ UNCHANGED dividerVars

\* an awaited mermaid.run call settles and its invocation resumes
Settling(c) ==
  /\ c \in calls
  /\ Commit(AfterSettle(Cur, c, Resolves(Cur, c.n)))
  /\ UNCHANGED <<delay, timer, timers, loaded, editor, storage, window>>
  /\ UNCHANGED observers
  /\ UNCHANGED shareVars
  /\ UNCHANGED pureVars
  /\ UNCHANGED dividerVars

Settle(c) == Settling(c) /\ UNCHANGED themeVars

\* a click on the theme toggle, lines 439-444
Toggling ==
  LET newTheme == IF dataTheme = "dark" THEN "light" ELSE "dark"
  IN /\ loaded
     /\ CanRerender(Cur)
     /\ Commit(applyTheme(Cur, newTheme))
     /\ storage' = newTheme
     /\ UNCHANGED <<delay, timer, timers, loaded, editor, window>>
     /\ UNCHANGED observers
     /\ UNCHANGED shareVars
     /\ UNCHANGED pureVars
     /\ UNCHANGED dividerVars

ToggleTheme == Toggling /\ UNCHANGED themeVars

NodeIds == 1..MaxNodes

BatchIds == 1..MaxCounter

CallIds == [b : BatchIds, n : NodeIds]

Next ==
  \/ PageLoad
  \/ \E text \in Texts : Input(text)
  \/ Quiesce
  \/ DebounceFire
  \/ \E c \in CallIds : Settle(c)
  \/ ToggleTheme

Spec == Init /\ [][Next]_vars

(***************************************************************************)
(* FairSpec: the diagram pipeline under fairness. An edit and the run of    *)
(* updatePreview that its debounce window ends with are one step, Render,   *)
(* which is Input followed by Quiesce and DebounceFire with nothing in      *)
(* between; page load, the settling of calls and theme changes are the      *)
(* actions of Spec. Every in-flight mermaid.run call eventually resolves    *)
(* or rejects.                                                              *)
(***************************************************************************)
Rendering(text) ==
  /\ loaded
  /\ CanRender(Cur, text)
  /\ editor' = text
  /\ Commit(updatePreview(Cur, text))
  /\ UNCHANGED <<delay, timer, timers, loaded, storage, window>>
  /\ UNCHANGED observers
  /\ UNCHANGED shareVars
  /\ UNCHANGED pureVars
  /\ UNCHANGED dividerVars

Render(text) == Rendering(text) /\ UNCHANGED themeVars

NextDiagrams ==
  \/ PageLoad
  \/ \E text \in DiagramTexts : Render(text)
  \/ \E c \in CallIds : Settle(c)
  \/ ToggleTheme

FairSpec ==
  Init /\ [][NextDiagrams]_vars /\ \A c \in CallIds : WF_vars(Settle(c))

(***************************************************************************)
(* Claims about the page.                                                  *)
(***************************************************************************)
Terminal == {"succeeded", "failed"}

\* the outcome the placeholder's own mermaid.run call gives it
OwnOutcome(n) == IF nodes[n].valid THEN "succeeded" ELSE "failed"

PreviewDiagrams == MermaidElements(Cur)

LiveBatches == DOMAIN batches

CallsOf(b) == { c \in calls : c.b = b }

\* C3: latest render wins. No success or error result of a batch is written into
\* an element of a document other than the one the batch enumerated; the preview
\* holds exactly the elements of the latest conversion; and once no call is in
\* flight every diagram of the preview shows the outcome of its own call.
C3_LatestRenderWins ==
  /\ \A n \in DOMAIN nodes : nodes[n].writer # 0 => nodes[n].writer = nodes[n].doc
  /\ lastUpdate.converted =>
       /\ ~preview.placeholder
       /\ Len(preview.els) = Len(renderMarkdown(lastUpdate.text))
       /\ \A k \in 1..Len(preview.els) :
            /\ nodes[preview.els[k]].doc = preview.els[1]
            /\ nodes[preview.els[k]].kind =
                 NewNode(renderMarkdown(lastUpdate.text)[k], 0).kind
            /\ nodes[preview.els[k]].valid =
                 NewNode(renderMarkdown(lastUpdate.text)[k], 0).valid
            /\ \A m \in DOMAIN nodes : nodes[m].doc <= nodes[preview.els[k]].doc
  /\ calls = {} =>
       \A k \in 1..Len(PreviewDiagrams) :
         nodes[PreviewDiagrams[k]].state = OwnOutcome(PreviewDiagrams[k])

\* the batch of a superseded render completed after the batch of the render that
\* replaced it: its results landed while the later document was on show
C3_Witness ==
  /\ lastDone # <<>>
  /\ PreviewDiagrams # <<>>
  /\ nodes[lastDone[1]].doc < nodes[PreviewDiagrams[1]].doc
  /\ nodes[lastDone[Len(lastDone)]].writer = nodes[lastDone[1]].doc
  /\ calls = {}

\* C4: the input events of one debounce window cause one run of updatePreview,
\* when the window ends, on the text the editor holds then; while the window is
\* running nothing is rendered.
C4_OneRenderPerWindow ==
  /\ window.runs <= 1
  /\ (window.open /\ timers # {}) => window.runs = 0
  /\ (window.open /\ timers = {}) =>
       /\ window.runs = 1
       /\ lastUpdate.ran
       /\ lastUpdate.text = editor

\* a window in which a later input event replaced the text of an earlier one has
\* ended with one render of the last text
C4_Witness ==
  /\ window.open
  /\ timers = {}
  /\ window.runs = 1
  /\ window.edits
  /\ lastUpdate.text = editor
  /\ lastUpdate.converted

\* placeholder n is enumerated by a running batch and is not yet succeeded or failed
PendingLive(n) ==
  /\ \E b \in LiveBatches : InSeq(n, batches[b].els)
  /\ ~(n \in DOMAIN nodes /\ nodes[n].state \in Terminal)

\* C5: with every mermaid.run call settling eventually, every placeholder a batch
\* enumerated becomes succeeded or failed: no placeholder stays pending in a
\* running batch for ever, a placeholder stops being pending in a running batch
\* only by becoming succeeded or failed, and a batch completes only when all of
\* its placeholders are.
C5_EveryPlaceholderTerminal ==
  /\ \A n \in NodeIds : []<>(~PendingLive(n))
  /\ [][\A n \in NodeIds :
          (PendingLive(n) /\ ~PendingLive(n)') => nodes'[n].state \in Terminal]_vars
  /\ [][\A b \in LiveBatches :
          b \notin DOMAIN batches' =>
            \A k \in 1..Len(batches[b].els) :
              nodes'[batches[b].els[k]].state \in Terminal]_vars

\* a batch of two placeholders has completed with both terminal
C5_Witness ==
  /\ Len(lastDone) = 2
  /\ LiveBatches = {}
  /\ \A k \in 1..Len(lastDone) : nodes[lastDone[k]].state \in Terminal

\* C6: failure isolation. Every placeholder of a completed batch, and every
\* placeholder a running batch has got past, holds the outcome of its own call:
\* the error message when its call failed, the graphic when it did not.
C6_FailureIsolation ==
  /\ \A k \in 1..Len(lastDone) : nodes[lastDone[k]].state = OwnOutcome(lastDone[k])
  /\ \A b \in LiveBatches :
       \A k \in 1..(batches[b].i - 1) :
         nodes[batches[b].els[k]].state = OwnOutcome(batches[b].els[k])

\* a batch completed whose first placeholder failed and whose second succeeded
C6_Witness ==
  /\ Len(lastDone) = 2
  /\ nodes[lastDone[1]].state = "failed"
  /\ nodes[lastDone[2]].state = "succeeded"

\* C7 as claimed: while a call of a batch is unresolved no sibling is held back;
\* each other placeholder of the batch has been handed to the layout service.
C7_SiblingsNotBlocked ==
  \A b \in LiveBatches :
    CallsOf(b) # {} => batches[b].sub = Len(batches[b].els)

\* C7 amended: a batch processes its placeholders one at a time in document
\* order. Exactly one call is in flight, for placeholder i; the placeholders
\* before it have settled, and those after it have not been submitted.
C7_OneAtATimeInOrder ==
  \A b \in LiveBatches :
    /\ CallsOf(b) = { [b |-> b, n |-> batches[b].els[batches[b].i]] }
    /\ batches[b].sub = batches[b].i
    /\ \A k \in 1..(batches[b].i - 1) : nodes[batches[b].els[k]].state \in Terminal

\* the first placeholder of a batch is in flight and the second, still pending,
\* has not been submitted
C7_Witness ==
  \E b \in LiveBatches :
    /\ Len(batches[b].els) = 2
    /\ batches[b].i = 1
    /\ batches[b].sub = 1
    /\ nodes[batches[b].els[2]].state = "pending"

\* C8: the identifiers assigned at line 56 strictly increase over the whole run,
\* mermaidCounter is the last one assigned, and no two elements hold the same one.
C8_IdsStrictlyIncrease ==
  /\ \A j, k \in 1..Len(idLog) : j < k => idLog[j] < idLog[k]
  /\ idLog # <<>> => mermaidCounter = LastOf(idLog)
  /\ \A m, n \in DOMAIN nodes :
       (m # n /\ nodes[m].mid # 0) => nodes[m].mid # nodes[n].mid

\* identifiers were assigned by a render and again by a theme change
C8_Witness ==
  /\ Len(idLog) = MaxCounter
  /\ \E n \in DOMAIN nodes : nodes[n].themed /\ nodes[n].mid = mermaidCounter
  /\ \E n \in DOMAIN nodes : ~nodes[n].themed /\ nodes[n].mid # 0

\* C9 as claimed: a succeeded or failed placeholder keeps its identifier and its
\* state and is never handed to the layout service again.
C9_TerminalNeverTouched ==
  [][\A n \in DOMAIN nodes :
       nodes[n].state \in Terminal =>
         /\ nodes'[n].mid = nodes[n].mid
         /\ nodes'[n].state \in Terminal
         /\ \A c \in calls' \ calls : c.n # n]_vars

\* C9 amended: a succeeded or failed placeholder never becomes pending again; it
\* gets a new identifier only in a theme change, and is handed to the layout
\* service again only after a theme change has enumerated it.
C9_TerminalRetriedOnlyByTheme ==
  [][\A n \in DOMAIN nodes :
       nodes[n].state \in Terminal =>
         /\ nodes'[n].state \in Terminal
         /\ nodes'[n].mid # nodes[n].mid => dataTheme' # dataTheme
         /\ \A c \in calls' \ calls : c.n = n => nodes'[n].themed]_vars

\* a terminal placeholder that a theme change enumerated is in flight again
C9_Witness ==
  \E c \in calls :
    /\ nodes[c.n].state \in Terminal
    /\ nodes[c.n].themed
    /\ nodes[c.n].mid > c.n

WhitespaceOnly(text) == \A k \in 1..Len(text) : text[k] = Space

\* C10: a run of updatePreview on empty or whitespace-only text converts nothing,
\* starts no diagram processing and leaves the placeholder message in the preview.
C10_BlankShowsPlaceholder ==
  (lastUpdate.ran /\ WhitespaceOnly(lastUpdate.text)) =>
    /\ preview = PlaceholderView
    /\ ~lastUpdate.converted
    /\ ~lastUpdate.diagrams

\* the debounced updatePreview ran on whitespace-only text after a document
C10_Witness ==
  /\ lastUpdate.ran
  /\ lastUpdate.text = <<Space>>
  /\ window.runs = 1
  /\ nodes # <<>>
  /\ preview = PlaceholderView

\* C11: injection before diagram processing. Whenever the preview changes, all of
\* its elements are new ones (the converted HTML replaces the old content
\* wholesale); and whenever a render cycle starts a diagram batch, the
\* placeholders of the batch are exactly the diagrams of the document the same
\* cycle has just injected, and every call the cycle issues is on one of them.
C11_InjectionBeforeDiagrams ==
  [][/\ preview' # preview =>
          \A k \in 1..Len(preview'.els) : preview'.els[k] \notin DOMAIN nodes
     /\ \A b \in DOMAIN batches' \ DOMAIN batches :
          batches'[b].origin = "render" =>
            LET els == batches'[b].els
                Diagram(n) == nodes'[n].kind = "mermaid"
            IN /\ els = SelectSeq(preview'.els, Diagram)
               /\ \A k \in 1..Len(els) : els[k] \notin DOMAIN nodes
               /\ \A c \in calls' \ calls : c.b = b => InSeq(c.n, els)]_vars

\* a render cycle over a second document has a batch of two placeholders running
C11_Witness ==
  \E b \in LiveBatches :
    /\ batches[b].origin = "render"
    /\ Len(batches[b].els) = 2
    /\ batches[b].els = PreviewDiagrams
    /\ batches[b].els[1] > 1
    /\ CallsOf(b) # {}

\* C12: copy-as-image buttons. No pending or failed placeholder carries a
\* copy-as-image button, and no placeholder carries one while a placeholder of a
\* running batch that enumerated it is still pending.
C12_ButtonsOnlyAfterBatch ==
  \A n \in DOMAIN nodes :
    (nodes[n].kind = "mermaid" /\ nodes[n].btns > 0) =>
      /\ nodes[n].state = "succeeded"
      /\ \A b \in LiveBatches :
           InSeq(n, batches[b].els) =>
             \A k \in 1..Len(batches[b].els) :
               nodes[batches[b].els[k]].state \in Terminal

(***************************************************************************)
(* Strings. A string is a sequence of characters; the fixed pieces of the   *)
(* HTML templates of renderer.code and the words "mermaid", "js" and "zz"   *)
(* of a language tag are single elements.                                  *)
(***************************************************************************)
Amp == "&"

Lt == "<"

Gt == ">"

Quot == "\""

Apos == "'"

Chars == {Amp, Lt, Gt, Quot, Apos, "a"}

RECURSIVE StringsOf(_, _)
StringsOf(S, n) ==
  IF n = 0 THEN { <<>> }
  ELSE LET shorter == StringsOf(S, n - 1)
       IN shorter \cup { Append(t, ch) : t \in shorter, ch \in S }

\* the named reference of a character, or the character itself
NamedReference(ch) ==
  CASE ch = Amp -> <<"&", "a", "m", "p", ";">>
    [] ch = Lt -> <<"&", "l", "t", ";">>
    [] ch = Gt -> <<"&", "g", "t", ";">>
    [] ch = Quot -> <<"&", "q", "u", "o", "t", ";">>
    [] ch = Apos -> <<"&", "#", "0", "3", "9", ";">>
    [] OTHER -> <<ch>>

References == { NamedReference(ch) : ch \in {Amp, Lt, Gt, Quot, Apos} }

\* a text with every character replaced by its reference, in order
RECURSIVE Escaped(_)
Escaped(str) ==
  IF str = <<>> THEN <<>> ELSE NamedReference(Head(str)) \o Escaped(Tail(str))

\* String.prototype.replace(/ch/g, rep): one pass, left to right, over the
\* string it is called on; replacement text is not scanned again
RECURSIVE ReplaceAll(_, _, _)
ReplaceAll(str, ch, rep) ==
  IF str = <<>> THEN <<>>
  ELSE (IF Head(str) = ch THEN rep ELSE <<Head(str)>>) \o ReplaceAll(Tail(str), ch, rep)

\* an escapeHtml that forgets the apostrophe
escapeHtmlNoApos(html) ==
  ReplaceAll(
    ReplaceAll(
      ReplaceAll(
        ReplaceAll(html, Amp, <<"&", "a", "m", "p", ";">>),
        Lt, <<"&", "l", "t", ";">>),
      Gt, <<"&", "g", "t", ";">>),
    Quot, <<"&", "q", "u", "o", "t", ";">>)

\* an escapeHtml that replaces the ampersand last
escapeHtmlAmpLast(html) ==
  ReplaceAll(
    ReplaceAll(
      ReplaceAll(
        ReplaceAll(
          ReplaceAll(html, Lt, <<"&", "l", "t", ";">>),
          Gt, <<"&", "g", "t", ";">>),
        Quot, <<"&", "q", "u", "o", "t", ";">>),
      Apos, <<"&", "#", "0", "3", "9", ";">>),
    Amp, <<"&", "a", "m", "p", ";">>)

\* escapeHtml, lines 226-233: five replace passes in this order
escapeHtml(html) ==
  ReplaceAll(
    ReplaceAll(
      ReplaceAll(
        ReplaceAll(
          ReplaceAll(html, Amp, <<"&", "a", "m", "p", ";">>),
          Lt, <<"&", "l", "t", ";">>),
        Gt, <<"&", "g", "t", ";">>),
      Quot, <<"&", "q", "u", "o", "t", ";">>),
    Apos, <<"&", "#", "0", "3", "9", ";">>)

(***************************************************************************)
(* renderer.code, lines 250-278, and the highlighting service it calls.    *)
(***************************************************************************)
PreMermaidOpen == "<pre class=\"mermaid\">"

PreClose == "</pre>"

CodeOpen == "<pre><code>"

CodeLangOpen == "<pre><code class=\"language-"

HljsOpen == "<pre><code class=\"hljs language-"

AttrClose == "\">"

CodeClose == "</code></pre>"

\* hljs.getLanguage(lang): the languages the service knows
GetLanguage(lang) == lang \in { <<"js">> }

\* hljs.highlight(code, { language: lang }).value: the text, encoded, in a span
HighlightValue(code, lang) == <<"<span class=\"hljs\">">> \o Escaped(code) \o <<"</span>">>

\* how a call of the highlighting service can go
HlBehaviours == {"ok", "checkThrows", "highlightThrows"}

Returned(html) == [op |-> "code", threw |-> FALSE, html |-> html]

Thrown == [op |-> "code", threw |-> TRUE, html |-> <<>>]

\* lang = (lang || '').trim()
NormalLang(lang) == Trim(IF lang.given THEN lang.s ELSE <<>>)

\* a renderer.code that leaves the diagram source unescaped
rendererCodeRawMermaid(code, langArg, hl) ==
  LET lang == NormalLang(langArg)
      plain == Returned(<<CodeLangOpen>> \o escapeHtml(lang) \o <<AttrClose>>
                        \o escapeHtml(code) \o <<CodeClose>>)
  IN IF lang = <<"mermaid">>
     THEN Returned(<<PreMermaidOpen>> \o code \o <<PreClose>>)
     ELSE IF lang # <<>>
     THEN IF hl = "checkThrows" THEN plain
          ELSE IF GetLanguage(lang)
          THEN IF hl = "highlightThrows" THEN plain
               ELSE Returned(<<HljsOpen>> \o escapeHtml(lang) \o <<AttrClose>>
                             \o HighlightValue(code, lang) \o <<CodeClose>>)
          ELSE plain
     ELSE Returned(<<CodeOpen>> \o escapeHtml(code) \o <<CodeClose>>)

\* a renderer.code without the try/catch around the highlighting service
rendererCodeNoCatch(code, langArg, hl) ==
  LET lang == NormalLang(langArg)
      plain == Returned(<<CodeLangOpen>> \o escapeHtml(lang) \o <<AttrClose>>
                        \o escapeHtml(code) \o <<CodeClose>>)
  IN IF lang = <<"mermaid">>
     THEN Returned(<<PreMermaidOpen>> \o escapeHtml(code) \o <<PreClose>>)
     ELSE IF lang # <<>>
     THEN IF hl = "checkThrows" THEN Thrown
          ELSE IF GetLanguage(lang)
          THEN IF hl = "highlightThrows" THEN Thrown
               ELSE Returned(<<HljsOpen>> \o escapeHtml(lang) \o <<AttrClose>>
                             \o HighlightValue(code, lang) \o <<CodeClose>>)
          ELSE plain
     ELSE Returned(<<CodeOpen>> \o escapeHtml(code) \o <<CodeClose>>)

\* renderer.code(code, lang): an exception of hljs.getLanguage or hljs.highlight
\* is caught at line 268 and control falls through to line 272
rendererCode(code, langArg, hl) ==
  LET lang == NormalLang(langArg)
      plain == Returned(<<CodeLangOpen>> \o escapeHtml(lang) \o <<AttrClose>>
                        \o escapeHtml(code) \o <<CodeClose>>)
  IN IF lang = <<"mermaid">>
     THEN Returned(<<PreMermaidOpen>> \o escapeHtml(code) \o <<PreClose>>)
     ELSE IF lang # <<>>
     THEN IF hl = "checkThrows" THEN plain
          ELSE IF GetLanguage(lang)
          THEN IF hl = "highlightThrows" THEN plain
               ELSE Returned(<<HljsOpen>> \o escapeHtml(lang) \o <<AttrClose>>
                             \o HighlightValue(code, lang) \o <<CodeClose>>)
          ELSE plain
     ELSE Returned(<<CodeOpen>> \o escapeHtml(code) \o <<CodeClose>>)

(***************************************************************************)
(* SpecPure: one call of escapeHtml or of renderer.code on arguments drawn  *)
(* from bounded sets.                                                      *)
(***************************************************************************)
Codes == StringsOf(Chars, MaxText)

Langs ==
  { [given |-> FALSE, s |-> <<>>] } \cup
  { [given |-> TRUE, s |-> t] :
      t \in { <<>>, <<Space>>, <<"mermaid">>, <<Space, "mermaid", Space>>,
              <<"Mermaid">>, <<"js">>, <<"zz">>, <<"zz", Quot>> } }

InitPure ==
  /\ delay = Delay
  /\ timer = NoTimer
  /\ timers = {}
  /\ sinceCall = -1
  /\ burst = <<>>
  /\ execs = <<>>
  /\ PageInit
  /\ prefers = FALSE
  /\ viewport = Desktop
  /\ storage = "absent"
  /\ opened = NoHash
  /\ input \in [code : Codes, lang : Langs, hl : HlBehaviours]
  /\ result = NoResult

CallEscapeHtml ==
  /\ result.op = "none"
  /\ result' = [op |-> "escape", threw |-> FALSE, html |-> escapeHtml(input.code)]
  /\ UNCHANGED <<delay, timer, timers, input>>
  /\ UNCHANGED observers
  /\ UNCHANGED pageVars
  /\ UNCHANGED shareVars
  /\ UNCHANGED themeVars
  /\ UNCHANGED dividerVars

CallRendererCode ==
  /\ result.op = "none"
  /\ result' = rendererCode(input.code, input.lang, input.hl)
  /\ UNCHANGED <<delay, timer, timers, input>>
  /\ UNCHANGED observers
  /\ UNCHANGED pageVars
  /\ UNCHANGED shareVars
  /\ UNCHANGED themeVars
  /\ UNCHANGED dividerVars

NextPure == CallEscapeHtml \/ CallRendererCode

SpecPure == InitPure /\ [][NextPure]_vars

(***************************************************************************)
(* Claims about renderer.code and escapeHtml.                              *)
(***************************************************************************)
\* the language tag of the call, as line 251 normalises it
Tag == NormalLang(input.lang)

HasChar(str, ch) == \E k \in 1..Len(str) : str[k] = ch

\* C13: the policy of renderer.code, in priority order: the tag `mermaid` gives
\* a diagram container holding the content escaped once; another non-empty tag
\* the highlighting service knows gives a code container holding the
\* highlighter's output; another non-empty tag gives a plain code container with
\* the escaped content and the tag as language metadata; no tag gives a plain
\* code container with the escaped content and no language metadata; and a tag
\* other than `mermaid` never gives a diagram container.
C13_CodeBlockPolicy ==
  result.op = "code" =>
    /\ Tag = <<"mermaid">> =>
         result.html = <<PreMermaidOpen>> \o Escaped(input.code) \o <<PreClose>>
    /\ (Tag # <<"mermaid">> /\ Tag # <<>> /\ GetLanguage(Tag) /\ input.hl = "ok") =>
         result.html = <<HljsOpen>> \o Escaped(Tag) \o <<AttrClose>>
                       \o HighlightValue(input.code, Tag) \o <<CodeClose>>
    /\ (Tag # <<"mermaid">> /\ Tag # <<>> /\ ~GetLanguage(Tag) /\ input.hl = "ok") =>
         result.html = <<CodeLangOpen>> \o Escaped(Tag) \o <<AttrClose>>
                       \o Escaped(input.code) \o <<CodeClose>>
    /\ Tag = <<>> =>
         result.html = <<CodeOpen>> \o Escaped(input.code) \o <<CodeClose>>
    /\ Tag # <<"mermaid">> => ~HasChar(result.html, PreMermaidOpen)

\* renderer.code returned for a mermaid block whose source holds a `<`
C13_Witness ==
  /\ result.op = "code"
  /\ Tag = <<"mermaid">>
  /\ HasChar(input.code, Lt)
  /\ ~result.threw

\* C14: highlighting is best-effort. When the highlighting service fails, in the
\* support check or in the highlight call, for a block with a non-empty tag,
\* renderer.code does not throw and returns the plain escaped code container,
\* with the tag as language metadata, that an unrecognized tag gets.
C14_HighlightBestEffort ==
  (result.op = "code" /\ Tag # <<>> /\ Tag # <<"mermaid">> /\ input.hl # "ok") =>
    /\ ~result.threw
    /\ result.html = <<CodeLangOpen>> \o Escaped(Tag) \o <<AttrClose>>
                     \o Escaped(input.code) \o <<CodeClose>>

\* renderer.code returned for a known language whose highlight call threw
C14_Witness ==
  /\ result.op = "code"
  /\ Tag = <<"js">>
  /\ input.hl = "highlightThrows"
  /\ input.code # <<>>

\* C15 as claimed: the output of escapeHtml holds none of the characters
\* < > & " '
C15_NoSpecialCharacter ==
  result.op = "escape" =>
    \A k \in 1..Len(result.html) : result.html[k] \notin {Lt, Gt, Amp, Quot, Apos}

\* C15: the output of escapeHtml holds none of the characters < > " ', and every
\* & in it begins one of the five named references.
C15_NoMarkupCharacter ==
  result.op = "escape" =>
    \A k \in 1..Len(result.html) :
      /\ result.html[k] \notin {Lt, Gt, Quot, Apos}
      /\ result.html[k] = Amp =>
           \E ref \in References :
             /\ k + Len(ref) - 1 <= Len(result.html)
             /\ SubSeq(result.html, k, k + Len(ref) - 1) = ref

\* escapeHtml returned for a text that holds an apostrophe and an ampersand
C15_Witness ==
  /\ result.op = "escape"
  /\ HasChar(input.code, Apos)
  /\ HasChar(input.code, Amp)

\* C16: escapeHtml returns its input with each & < > " ' replaced by its named
\* reference and every other character unaltered, in the same order; the & of a
\* reference is not escaped again.
C16_EscapeIsCharacterwise ==
  result.op = "escape" => result.html = Escaped(input.code)

\* escapeHtml returned for a text that holds a `<` before an ampersand
C16_Witness ==
  /\ result.op = "escape"
  /\ input.code = <<Lt, Amp>>

(***************************************************************************)
(* Sharing and export: shareAsUrl, lines 505-527, and downloadPdf, lines    *)
(* 544-618.                                                                 *)
(***************************************************************************)
\* a shareAsUrl that installs the token without the `lz,` marker
shareAsUrlNoMarker(ed, repl, clipboardOk) ==
  IF IsBlank(ed)
  THEN [replaced |-> repl, toast |-> "Nothing to share", emitted |-> FALSE,
        editor |-> ed]
  ELSE [replaced |-> [marker |-> "md", token |-> Compress(ed)],
        toast |-> IF clipboardOk THEN "Link copied" ELSE "URL updated",
        emitted |-> TRUE, editor |-> ed]

\* a shareAsUrl that writes the trimmed text back into the editor
shareAsUrlTrims(ed, repl, clipboardOk) ==
  IF IsBlank(ed)
  THEN [replaced |-> repl, toast |-> "Nothing to share", emitted |-> FALSE,
        editor |-> ed]
  ELSE [replaced |-> [marker |-> "lz", token |-> Compress(Trim(ed))],
        toast |-> IF clipboardOk THEN "Link copied" ELSE "URL updated",
        emitted |-> TRUE, editor |-> Trim(ed)]

\* shareAsUrl with editor text ed; repl is the fragment installed so far, and
\* clipboardOk whether navigator.clipboard.writeText resolves
shareAsUrl(ed, repl, clipboardOk) ==
  IF IsBlank(ed)
  THEN [replaced |-> repl, toast |-> "Nothing to share", emitted |-> FALSE,
        editor |-> ed]
  ELSE [replaced |-> [marker |-> "lz", token |-> Compress(ed)],
        toast |-> IF clipboardOk THEN "Link copied" ELSE "URL updated",
        emitted |-> TRUE, editor |-> ed]

\* downloadPdf with editor text ed; popupOk is whether window.open returns a window
downloadPdf(ed, popupOk) ==
  [editor |-> ed,
   toast |-> IF IsBlank(ed) THEN "Nothing to export"
             ELSE IF popupOk THEN "Print dialog opening" ELSE "Pop-up blocked"]

(***************************************************************************)
(* SpecShare: the page with its address. The page is opened with a         *)
(* fragment, edited, shared and exported; it can be closed and opened      *)
(* again at the address it then has, with the text the browser puts back   *)
(* into the textarea. An edit and the run of updatePreview that ends its   *)
(* debounce window are the one step Render.                                *)
(***************************************************************************)
ShareTexts == { <<>>, <<Space>>, <<"d">>, <<Space, "c">> }

RestoredTexts == { <<>>, <<"c">> }

\* window.location.hash as it is now
CurrentHash == IF replaced # NoHash THEN replaced ELSE opened

InitShare ==
  /\ delay = Delay
  /\ timer = NoTimer
  /\ timers = {}
  /\ sinceCall = -1
  /\ burst = <<>>
  /\ execs = <<>>
  /\ PageInit
  /\ prefers = FALSE
  /\ viewport = Desktop
  /\ opened \in Hashes
  /\ input = NoInput
  /\ result = NoResult

\* DOMContentLoaded on the page opened at its address
Open ==
  \E prefersDark \in BOOLEAN :
    LET r == DOMContentLoaded(Cur, editor, storage, prefersDark, opened)
    IN /\ ~loaded
       /\ loaded' = TRUE
       /\ editor' = r.editor
       /\ Commit(r.w)
       /\ load' = [ran |-> TRUE, decoded |-> r.decoded, renders |-> r.renders,
                   threw |-> r.threw, editor |-> r.editor, restored |-> editor,
                   same |-> (r.w = r.before /\ r.editor = editor),
                   placeholder |-> r.w.preview.placeholder,
                   update |-> r.w.lastUpdate, of |-> shared]
       /\ shared' = NoShare
       /\ UNCHANGED <<delay, timer, timers, storage, window, replaced, toast, opened>>
       /\ UNCHANGED observers
       /\ UNCHANGED pureVars
       /\ UNCHANGED themeVars
       /\ UNCHANGED dividerVars

\* the page is closed and a new document is created at the current address; the
\* browser may put text back into the textarea
Close(restored) ==
  /\ loaded
  /\ loaded' = FALSE
  /\ editor' = restored
  /\ preview' = EmptyView
  /\ nodes' = <<>>
  /\ mermaidCounter' = 0
  /\ batches' = <<>>
  /\ nextBatch' = 1
  /\ calls' = {}
  /\ dataTheme' = "unset"
  /\ mermaidTheme' = "default"
  /\ idLog' = <<>>
  /\ lastUpdate' = NoUpdate
  /\ lastDone' = <<>>
  /\ window' = [open |-> FALSE, runs |-> 0, edits |-> FALSE]
  /\ timer' = NoTimer
  /\ timers' = {}
  /\ opened' = CurrentHash
  /\ replaced' = NoHash
  /\ toast' = ""
  /\ load' = NoLoad
  /\ UNCHANGED <<delay, storage, shared>>
  /\ UNCHANGED observers
  /\ UNCHANGED pureVars
  /\ UNCHANGED themeVars
  /\ UNCHANGED dividerVars

\* a click on the Share button
Share(clipboardOk) ==
  LET r == shareAsUrl(editor, replaced, clipboardOk)
  IN /\ loaded
     /\ editor' = r.editor
     /\ replaced' = r.replaced
     /\ toast' = r.toast
     /\ shared' = [clicked |-> TRUE, text |-> editor, emitted |-> r.emitted]
     /\ UNCHANGED <<delay, timer, timers, loaded, preview, nodes, mermaidCounter,
                    batches, nextBatch, calls, dataTheme, storage, mermaidTheme,
                    idLog, lastUpdate, lastDone, window, opened, load>>
     /\ UNCHANGED observers
     /\ UNCHANGED pureVars
     /\ UNCHANGED themeVars
     /\ UNCHANGED dividerVars

\* a click on the PDF button
DownloadPdf(popupOk) ==
  LET r == downloadPdf(editor, popupOk)
  IN /\ loaded
     /\ editor' = r.editor
     /\ toast' = r.toast
     /\ UNCHANGED <<delay, timer, timers, loaded, preview, nodes, mermaidCounter,
                    batches, nextBatch, calls, dataTheme, storage, mermaidTheme,
                    idLog, lastUpdate, lastDone, window, replaced, opened, shared,
                    load>>
     /\ UNCHANGED observers
     /\ UNCHANGED pureVars
     /\ UNCHANGED themeVars
     /\ UNCHANGED dividerVars

NextShare ==
  \/ Open
  \/ \E restored \in RestoredTexts : Close(restored)
  \/ \E text \in ShareTexts : Render(text)
  \/ \E ok \in BOOLEAN : Share(ok)

SpecShare == InitShare /\ [][NextShare]_vars

(***************************************************************************)
(* SpecEdit: one editing session with every operation of the page: load,   *)
(* edits (with the run of updatePreview they lead to), settling diagram    *)
(* calls, theme changes, sharing and PDF export.                           *)
(***************************************************************************)
EditTexts == { <<Space>>, <<"x", "d">>, <<Space, "c">> }

NextEdit ==
  \/ PageLoad
  \/ \E text \in EditTexts : Render(text)
  \/ \E c \in CallIds : Settle(c)
  \/ ToggleTheme
  \/ \E ok \in BOOLEAN : Share(ok)
  \/ \E ok \in BOOLEAN : DownloadPdf(ok)

SpecEdit == Init /\ [][NextEdit]_vars

(***************************************************************************)
(* Claims about sharing, loading from the address and the editor text.     *)
(***************************************************************************)
\* a fragment loadFromHash can take no text from: none, an unrecognized marker,
\* or a token that decodes to nothing or on which decoding raises
BadHash(h) == h.marker # "lz" \/ h.token.raises \/ Decompress(h.token) = <<>>

\* C17 as claimed: after Share was clicked on editor text s and the page was
\* opened again at the resulting address, the editor holds exactly s; for the
\* empty s no token was emitted.
C17_ShareRoundTrip ==
  (load.ran /\ load.of.clicked) =>
    /\ load.of.text # <<>> => load.editor = load.of.text
    /\ load.of.text = <<>> => ~load.of.emitted

\* C17: after Share was clicked on a non-blank editor text s and the page was
\* opened again at the resulting address, loadFromHash decoded s and the editor
\* holds exactly s; for a blank s (empty or whitespace only) no token was emitted.
C17_ShareRoundTripNonBlank ==
  (load.ran /\ load.of.clicked) =>
    IF IsBlank(load.of.text)
    THEN ~load.of.emitted
    ELSE /\ load.of.emitted
         /\ load.decoded = load.of.text
         /\ load.editor = load.of.text

\* a text with a leading space was shared and the page opened again, over a
\* textarea the browser had put other text into
C17_Witness ==
  /\ load.ran
  /\ load.of.clicked
  /\ load.of.text = <<Space, "c">>
  /\ load.restored = <<"c">>
  /\ editor = <<Space, "c">>

\* C18: loadFromHash is a silent no-op on bad input. When the fragment is absent,
\* has another marker than `lz,`, or carries a token that decodes to nothing or
\* makes the decoder raise, loadFromHash does not throw, leaves the editor text
\* and the page as initRenderer left them, and runs no render.
C18_BadHashIsNoOp ==
  (load.ran /\ BadHash(opened)) =>
    /\ ~load.threw
    /\ load.same
    /\ load.editor = load.restored
    /\ load.renders = 0

\* the page was opened on a token that makes the decoder raise, with text in the
\* textarea
C18_Witness ==
  /\ load.ran
  /\ opened.marker = "lz"
  /\ opened.token.raises
  /\ load.restored = <<"c">>
  /\ load.update.text = <<"c">>

C20_EditorTextKept ==
  [][editor' # editor =>
       \/ \E text \in EditTexts : Render(text)
       \/ /\ ~loaded
          /\ loaded'
          /\ \E h \in Hashes : ~BadHash(h) /\ editor' = Decompress(h.token)]_vars

\* a text with a failed and a succeeded diagram is still in the editor after a
\* theme change, a share with a failing clipboard and a blocked PDF pop-up
C20_Witness ==
  /\ editor = <<"x", "d">>
  /\ \E n \in DOMAIN nodes : nodes[n].state = "failed"
  /\ \E n \in DOMAIN nodes : nodes[n].state = "succeeded"
  /\ storage # "absent"
  /\ shared.clicked
  /\ shared.emitted
  /\ toast = "Pop-up blocked"

(***************************************************************************)
(* SpecTheme: the theme and the diagrams. The system signal is a variable, *)
(* and for every graphic the page records the theme the service made it    *)
(* under. The service reads its theme at some moment between the call and  *)
(* its settling: a call made under one theme and settled under the other   *)
(* may give a graphic of either.                                           *)
(***************************************************************************)
ThemeTexts == { <<Space>>, <<"d">>, <<"c", "d">>, <<"x", "d">> }

InitTheme ==
  /\ delay = Delay
  /\ timer = NoTimer
  /\ timers = {}
  /\ sinceCall = -1
  /\ burst = <<>>
  /\ execs = <<>>
  /\ PageInit
  /\ prefers \in BOOLEAN
  /\ viewport = Desktop
  /\ opened = NoHash
  /\ input = NoInput
  /\ result = NoResult

\* the theme the service has when the awaited call of each suspended invocation
\* was made: a call made in this step was made under the theme of line 463
ConfiguredNext ==
  [b \in DOMAIN batches' |->
     IF b \in DOMAIN batches /\ { c \in calls' : c.b = b } \subseteq calls
     THEN configured[b]
     ELSE mermaidTheme']

\* the elements created in this step have no graphic yet
GeneratedNext == [n \in DOMAIN nodes' |-> IF n \in DOMAIN generated THEN generated[n] ELSE "none"]

\* the themes the service may generate the graphic of call c under
GenerationThemes(c) == {configured[c.b], mermaidTheme}

ThemeLoad ==
  /\ Loading(prefers, NoHash)
  /\ prefers' = prefers
  /\ configured' = ConfiguredNext
  /\ generated' = GeneratedNext

ThemeRender(text) ==
  /\ Rendering(text)
  /\ prefers' = prefers
  /\ configured' = ConfiguredNext
  /\ generated' = GeneratedNext

ThemeSettle(c) ==
  /\ Settling(c)
  /\ prefers' = prefers
  /\ configured' = ConfiguredNext
  /\ \E t \in GenerationThemes(c) :
       generated' = IF Resolves(Cur, c.n)
                    THEN [GeneratedNext EXCEPT ![c.n] = t]
                    ELSE GeneratedNext

ThemeToggle ==
  /\ Toggling
  /\ prefers' = prefers
  /\ configured' = ConfiguredNext
  /\ generated' = GeneratedNext

NextTheme ==
  \/ ThemeLoad
  \/ \E text \in ThemeTexts : ThemeRender(text)
  \/ \E c \in CallIds : ThemeSettle(c)
  \/ ThemeToggle

SpecTheme == InitTheme /\ [][NextTheme]_vars

(***************************************************************************)
(* Claims about the theme.                                                 *)
(***************************************************************************)
OtherTheme(theme) == IF theme = "dark" THEN "light" ELSE "dark"

\* the theme initTheme applies: the stored one, or else the system signal
InitialTheme ==
  IF storage # "absent" THEN storage ELSE IF prefers THEN "dark" ELSE "light"

\* C21: ThemeState is two-valued and persisted. At initialisation the applied
\* theme is the stored value when there is one and follows the system signal
\* otherwise; every toggle switches the applied theme to the other value and
\* stores it; so the applied theme is always light or dark, and from the first
\* toggle on (whenever a value is stored) it equals the stored value.
C21_ThemeTwoValuedAndPersisted ==
  /\ [](loaded => /\ dataTheme \in {"light", "dark"}
                  /\ storage # "absent" => dataTheme = storage)
  /\ [][(~loaded /\ loaded') =>
         (dataTheme' = InitialTheme /\ storage' = storage)]_vars
  /\ [][(loaded /\ (dataTheme' # dataTheme \/ storage' # storage)) =>
         (dataTheme' = OtherTheme(dataTheme) /\ storage' = dataTheme')]_vars

\* the page opened with dark stored under a light system signal, and toggled
\* twice since: a diagram has been through a theme batch
C21_Witness ==
  /\ loaded
  /\ ~prefers
  /\ dataTheme = "dark"
  /\ storage = "dark"
  /\ mermaidCounter = 3
  /\ \E n \in DOMAIN nodes : nodes[n].themed

\* the theme mermaid.initialize is given for a page theme, line 465
ServiceTheme(theme) == IF theme = "dark" THEN "dark" ELSE "default"

\* every application of a theme configures the service with that theme and,
\* when the preview holds diagrams, starts an invocation of
\* renderMermaidDiagrams over exactly those diagrams
C22_ThemeReissuesRender ==
  [][dataTheme' # dataTheme =>
       /\ mermaidTheme' = ServiceTheme(dataTheme')
       /\ IF PreviewDiagrams = <<>>
          THEN batches' = batches /\ calls' = calls
          ELSE /\ DOMAIN batches' = DOMAIN batches \cup {nextBatch}
               /\ batches'[nextBatch].els = PreviewDiagrams
               /\ batches'[nextBatch].origin = "theme"
               /\ [b |-> nextBatch, n |-> PreviewDiagrams[1]] \in calls']_vars

\* C22: every application of a theme re-issues a diagram render, so that after
\* the batch completes the diagrams shown were generated under the current
\* theme: once no invocation of renderMermaidDiagrams is suspended, every
\* graphic in the preview is one the service made under the theme it is
\* configured with now.
C22_DiagramsUnderCurrentTheme ==
  (loaded /\ batches = <<>>) =>
    \A k \in 1..Len(PreviewDiagrams) :
      nodes[PreviewDiagrams[k]].state = "succeeded" =>
        generated[PreviewDiagrams[k]] = mermaidTheme

\* C24: whatever invocations of renderMermaidDiagrams have completed or
\* overlapped, every diagram placeholder of the preview carries at most one
\* button, and any button it carries is the copy-as-image button put on a
\* rendered graphic (a placeholder never gets the copy-code button of
\* addCopyButtons, which would be on it from its render on); every other code
\* block of the preview carries exactly one copy-code button.
C24_OneButtonEach ==
  \A k \in 1..Len(preview.els) :
    LET n == preview.els[k]
    IN IF IsMermaid(Cur, n)
       THEN /\ nodes[n].btns <= 1
            /\ nodes[n].btns = 1 => nodes[n].state = "succeeded"
       ELSE nodes[n].btns = 1

\* a code block and a rendered diagram with one button each, in a preview that
\* an invocation over an earlier document was the last to complete on
C24_Witness ==
  /\ Len(preview.els) = 2
  /\ nodes[preview.els[1]].kind = "code"
  /\ nodes[preview.els[1]].btns = 1
  /\ nodes[preview.els[2]].state = "succeeded"
  /\ nodes[preview.els[2]].btns = 1
  /\ batches = <<>>
  /\ lastDone # <<>>
  /\ nodes[lastDone[1]].doc < nodes[preview.els[2]].doc

\* the mermaid.run calls in flight on element n
InFlightOn(n) == { c \in calls : c.n = n }

\* C25: no diagram placeholder is handed to mermaid.run while an earlier call
\* on the same placeholder is still unresolved, and no placeholder's identifier
\* is reassigned while a call on it is in flight, a theme change during an
\* in-flight batch over the same preview included.
C25_NoOverlapNoReassign ==
  /\ [](\A n \in DOMAIN nodes : Cardinality(InFlightOn(n)) <= 1)
  /\ [][\A n \in DOMAIN nodes :
          InFlightOn(n) # {} => nodes'[n].mid = nodes[n].mid]_vars

(***************************************************************************)
(* The resizable divider. A percentage p of the handler is held exactly,   *)
(* as the integer p * totalSize: `of` in a flexBasis record is that        *)
(* totalSize, and editor / of and preview / of are the percentages set.    *)
(***************************************************************************)
isVerticalLayout(vp) == vp.innerWidth < Breakpoint

\* vertical ? window.innerHeight : window.innerWidth
TotalSize(vp) == IF isVerticalLayout(vp) THEN vp.innerHeight ELSE vp.innerWidth

\* vertical ? divider.offsetHeight : divider.offsetWidth
DividerSize(vp) == IF isVerticalLayout(vp) THEN vp.offsetHeight ELSE vp.offsetWidth

\* an onDragMove that clamps the editor from below only
onDragMoveNoMax(vp, position) ==
  LET totalSize == TotalSize(vp)
      dividerSize == DividerSize(vp)
      editorPercent == position * 100
      minPercent == 20 * totalSize
      clamped == IF editorPercent < minPercent THEN minPercent ELSE editorPercent
      previewPercent == 100 * totalSize - clamped - dividerSize * 100
  IN [editor |-> clamped, preview |-> previewPercent, of |-> totalSize]

\* onDragMove while dragging: the flexBasis it gives the two panels
onDragMove(vp, position) ==
  LET totalSize == TotalSize(vp)
      dividerSize == DividerSize(vp)
      editorPercent == position * 100
      minPercent == 20 * totalSize
      maxPercent == 100 * totalSize - minPercent - dividerSize * 100
      atLeast == IF editorPercent < minPercent THEN minPercent ELSE editorPercent
      clamped == IF atLeast > maxPercent THEN maxPercent ELSE atLeast
      previewPercent == 100 * totalSize - clamped - dividerSize * 100
  IN [editor |-> clamped, preview |-> previewPercent, of |-> totalSize]

\* windows below the breakpoint: the panels are stacked and the divider is a
\* horizontal bar as wide as the window
StackedViewports ==
  { [innerWidth |-> w, innerHeight |-> h, offsetWidth |-> w, offsetHeight |-> d] :
      w \in {MaxSize, Breakpoint - 1}, h \in 1..MaxSize, d \in 0..MaxSize }

\* windows at or above the breakpoint: the panels are side by side and the
\* divider is a vertical bar as high as the window
SideBySideViewports ==
  { [innerWidth |-> w, innerHeight |-> h, offsetWidth |-> d, offsetHeight |-> h] :
      w \in {Breakpoint, Breakpoint + MaxSize}, h \in {MaxSize}, d \in 0..MaxSize }

\* the divider lies within the window
Viewports ==
  { vp \in StackedViewports \cup SideBySideViewports : DividerSize(vp) <= TotalSize(vp) }

\* clientX / clientY of a pointer event: inside the window, at its edges, at
\* the bounds of the clamp, and outside the window
Positions(vp) ==
  LET t == TotalSize(vp)
  IN (-1..(MaxSize + 1)) \cup {t \div 5, t \div 5 + 1, t \div 2, t - (t \div 5) - 1, t, t + 1}

InitDivider ==
  /\ delay = Delay
  /\ timer = NoTimer
  /\ timers = {}
  /\ sinceCall = -1
  /\ burst = <<>>
  /\ execs = <<>>
  /\ PageInit
  /\ storage = "absent"
  /\ prefers = FALSE
  /\ viewport \in Viewports
  /\ opened = NoHash
  /\ input = NoInput
  /\ result = NoResult

\* mousedown or touchstart on the divider
DragStart ==
  /\ isDragging' = TRUE
  /\ UNCHANGED <<viewport, flexBasis, pointer>>
  /\ UNCHANGED <<delay, timer, timers>>
  /\ UNCHANGED observers
  /\ UNCHANGED pageVars
  /\ UNCHANGED shareVars
  /\ UNCHANGED pureVars
  /\ UNCHANGED themeVars

\* mousemove or touchmove anywhere in the document
DragMove(position) ==
  /\ IF isDragging
     THEN /\ flexBasis' = onDragMove(viewport, position)
          /\ pointer' = position
     ELSE UNCHANGED <<flexBasis, pointer>>
  /\ UNCHANGED <<isDragging, viewport>>
  /\ UNCHANGED <<delay, timer, timers>>
  /\ UNCHANGED observers
  /\ UNCHANGED pageVars
  /\ UNCHANGED shareVars
  /\ UNCHANGED pureVars
  /\ UNCHANGED themeVars

\* mouseup or touchend anywhere in the document
DragEnd ==
  /\ isDragging' = FALSE
  /\ UNCHANGED <<viewport, flexBasis, pointer>>
  /\ UNCHANGED <<delay, timer, timers>>
  /\ UNCHANGED observers
  /\ UNCHANGED pageVars
  /\ UNCHANGED shareVars
  /\ UNCHANGED pureVars
  /\ UNCHANGED themeVars

NextDivider ==
  \/ DragStart
  \/ \E position \in Positions(viewport) : DragMove(position)
  \/ DragEnd

SpecDivider == InitDivider /\ [][NextDivider]_vars

(***************************************************************************)
(* Claims about the divider.                                               *)
(***************************************************************************)
\* the three shares add up to 100%
SharesAddUp ==
  flexBasis.editor + flexBasis.preview + 100 * DividerSize(viewport) = 100 * flexBasis.of

\* neither panel is below 20%
PanelsKeepMinimum ==
  /\ flexBasis.editor >= 20 * flexBasis.of
  /\ flexBasis.preview >= 20 * flexBasis.of

====
